---------------------------- MODULE Spec2Model ----------------------------
(***************************************************************************)
(* Model of PricingOptimizer (smartstay-hotel-pricing/model.py).           *)
(*                                                                         *)
(* The Python code computes on floats.  The model computes the same        *)
(* expressions exactly, on scaled integers:                                *)
(*   demand_confidence   hundredths        (78   = 0.78)                   *)
(*   season_factor       tenths            (12   = 1.2)                    *)
(*   competition_price   whole dollars                                     *)
(*   hotel/room factors  tenths            (13   = 1.3)                    *)
(*   base price          whole dollars     (156  = 156.0)                  *)
(*   demand multiplier   thousandths       (1280 = 1.28)                   *)
(*   season adjustment   hundredths        (164  = 1.64)                   *)
(*   ratios, adjustment  fractions [num, den]                              *)
(*   a raw price         [cents, rem]: cents + rem / SubCent cents         *)
(*   a rounded price     cents             (33299 = 332.99)                *)
(* round() is Python's round-half-to-even, taken on the exact value.  The   *)
(* float product of the code differs from the exact one by rounding error  *)
(* only: the two agree after round() except where the exact value is a     *)
(* tie (x.5 dollars, or half a cent), where the float may fall on either   *)
(* side of it.                                                             *)
(***************************************************************************)
EXTENDS Integers, Sequences, FiniteSets, TLC

VARIABLES config, call, remembered, threads, predictor

vars == <<config, call, remembered, threads, predictor>>

-----------------------------------------------------------------------------
(* Input domains *)

\* largest season_factor drawn, in tenths
MaxSeasonFactor == 20

\* largest competition_price drawn, in dollars
MaxCompetitionPrice == 400

\* how far outside [0,1] a demand_confidence is drawn, in hundredths
MaxDemandExcess == 150

ValidDemand == 0..100

DemandConfidences ==
    {d \in ValidDemand : d % 10 = 0}
        \cup {40, 41, 50, 51, 60, 61, 78, 80, 81, 85}
        \cup {0 - MaxDemandExcess, 100 + MaxDemandExcess}

CompetitionPrices ==
    {-50, 0, 50, 80, 96, 100, 120, 144, 180, 204, 240, 300, 360}
        \cup {MaxCompetitionPrice}

SeasonFactors == {0, 5, 10, 12} \cup {MaxSeasonFactor}

HotelTypes == {"Resort", "City", "Hostel"}

RoomTypes == {"Standard", "Deluxe", "Suite", "Presidential", "Penthouse"}

PriceArgs ==
    [demand_confidence : DemandConfidences,
     competition_price : CompetitionPrices,
     season_factor     : SeasonFactors,
     hotel_type        : HotelTypes,
     room_type         : RoomTypes]

None == [none |-> TRUE]

\* no call in progress: the caller is between two calls
Idle ==
    [op      |-> "idle",
     args    |-> None,
     locals  |-> None,
     outcome |-> "none",
     result  |-> None]

-----------------------------------------------------------------------------
(* Arithmetic helpers *)

Min(a, b) == IF a <= b THEN a ELSE b

Max(a, b) == IF a >= b THEN a ELSE b

\* units of rem in a raw price: 1 cent = SubCent units
SubCent == 100000

\* Python round(): q + r/den with 0 <= r < den, to the nearest integer,
\* a tie going to the even one
RoundHalfEven(q, r, den) ==
    IF 2 * r > den THEN q + 1
    ELSE IF 2 * r < den THEN q
    ELSE IF q % 2 = 0 THEN q ELSE q + 1

-----------------------------------------------------------------------------
(* PricingOptimizer.__init__ *)

NewConfig ==
    [base_price       |-> 100,
     price_elasticity |-> -18,
     min_price        |-> 50,
     max_price        |-> 400]

-----------------------------------------------------------------------------
(* PricingOptimizer.calculate_optimal_price, step by step *)

\* variant: the 20% resort premium applied to city hotels instead
HotelFactor_Swapped(hotel_type) ==
    IF hotel_type = "Resort" THEN 10
    ELSE IF hotel_type = "City" THEN 12
    ELSE 10

HotelFactor(hotel_type) ==
    IF hotel_type = "Resort" THEN 12
    ELSE IF hotel_type = "City" THEN 10
    ELSE 10

\* variant: the Suite entry of the table mistyped as 1.2
RoomMultiplier_SuiteBelowDeluxe(room_type) ==
    CASE room_type = "Standard"     -> 10
      [] room_type = "Deluxe"       -> 13
      [] room_type = "Suite"        -> 12
      [] room_type = "Presidential" -> 25
      [] OTHER                      -> 10

\* variant: the lookup without its default, room_multipliers.get(room_type, 0)
RoomMultiplier_DefaultZero(room_type) ==
    CASE room_type = "Standard"     -> 10
      [] room_type = "Deluxe"       -> 13
      [] room_type = "Suite"        -> 17
      [] room_type = "Presidential" -> 25
      [] OTHER                      -> 0

RoomMultiplier(room_type) ==
    CASE room_type = "Standard"     -> 10
      [] room_type = "Deluxe"       -> 13
      [] room_type = "Suite"        -> 17
      [] room_type = "Presidential" -> 25
      [] OTHER                      -> 10

\* base_price after both multipliers, dollars (whole for base_price = 100)
BasePrice(cfg, hotel_type, room_type) ==
    (cfg.base_price * HotelFactor(hotel_type) * RoomMultiplier(room_type))
        \div 100

\* variant: low-demand slope 0.5 instead of 0.6
DemandLow_Slope5(d) == 700 + d * 5

DemandLow(d) == 700 + d * 6

DemandMid(d) == 1000 + (d - 50) * 10

\* variant: premium branch starting from 1.2 instead of 1.5
DemandHigh_From12(d) == 1200 + (d - 80) * 25

DemandHigh(d) == 1500 + (d - 80) * 25

\* variant: the two tests in the wrong order, the premium branch dead
DemandMultiplier_MidFirst(d) ==
    IF d > 50 THEN DemandMid(d)
    ELSE IF d > 80 THEN DemandHigh(d)
    ELSE DemandLow(d)

DemandMultiplier(d) ==
    IF d > 80 THEN DemandHigh(d)
    ELSE IF d > 50 THEN DemandMid(d)
    ELSE DemandLow(d)

CompetitionRatio(competition_price, base) ==
    [num |-> competition_price, den |-> base]

\* variant: the two constant branches exchanged
CompetitionAdjustment_Exchanged(ratio) ==
    IF 10 * ratio.num < 8 * ratio.den THEN [num |-> 95, den |-> 100]
    ELSE IF 10 * ratio.num > 12 * ratio.den THEN [num |-> 115, den |-> 100]
    ELSE [num |-> 9 * ratio.den + ratio.num, den |-> 10 * ratio.den]

\* variant: ratio <= 0.8 in the first test
CompetitionAdjustment_InclusiveLow(ratio) ==
    IF 10 * ratio.num <= 8 * ratio.den THEN [num |-> 115, den |-> 100]
    ELSE IF 10 * ratio.num > 12 * ratio.den THEN [num |-> 95, den |-> 100]
    ELSE [num |-> 9 * ratio.den + ratio.num, den |-> 10 * ratio.den]

\* variant: the linear branch falling, 1.0 - (ratio - 1.0) * 0.1
CompetitionAdjustment_FallingSlope(ratio) ==
    IF 10 * ratio.num < 8 * ratio.den THEN [num |-> 115, den |-> 100]
    ELSE IF 10 * ratio.num > 12 * ratio.den THEN [num |-> 95, den |-> 100]
    ELSE [num |-> 11 * ratio.den - ratio.num, den |-> 10 * ratio.den]

\* ratio < 0.8 -> 1.15; ratio > 1.2 -> 0.95; else 1.0 + (ratio - 1.0) * 0.1
CompetitionAdjustment(ratio) ==
    IF 10 * ratio.num < 8 * ratio.den THEN [num |-> 115, den |-> 100]
    ELSE IF 10 * ratio.num > 12 * ratio.den THEN [num |-> 95, den |-> 100]
    ELSE [num |-> 9 * ratio.den + ratio.num, den |-> 10 * ratio.den]

\* variant: the season term subtracted
SeasonAdjustment_Minus(season_factor) == 80 - season_factor * 7

SeasonAdjustment(season_factor) == 80 + season_factor * 7

\* base * demand_multiplier * competition_adjustment * season_adjustment,
\* exact: base * adjustment is a whole number of cents in every branch
RawPrice(base, demand_multiplier, adjustment, season_adjustment) ==
    LET adjusted == (base * adjustment.num * 100) \div adjustment.den
        a        == adjusted * demand_multiplier
        hi       == a \div SubCent
        lo       == a % SubCent
    IN  [cents |-> hi * season_adjustment
                     + (lo * season_adjustment) \div SubCent,
         rem   |-> (lo * season_adjustment) % SubCent]

\* variant: the >= 100 branch given the body of the >= 50 branch
ApplyPsychologicalPricing_CentsFrom100(price) ==
    IF price.cents >= 30000
    THEN RoundHalfEven((price.cents - 100) \div 100,
                       ((price.cents - 100) % 100) * SubCent + price.rem,
                       100 * SubCent) * 100 + 99
    ELSE IF price.cents >= 5000
    THEN RoundHalfEven(price.cents - 5, price.rem, SubCent)
    ELSE RoundHalfEven(price.cents, price.rem, SubCent)

\* variant: round(price) + 0.99, the "- 1" forgotten
ApplyPsychologicalPricing_NoMinusOne(price) ==
    IF price.cents >= 10000
    THEN RoundHalfEven(price.cents \div 100,
                       (price.cents % 100) * SubCent + price.rem,
                       100 * SubCent) * 100 + 99
    ELSE IF price.cents >= 5000
    THEN RoundHalfEven(price.cents - 5, price.rem, SubCent)
    ELSE RoundHalfEven(price.cents, price.rem, SubCent)

ApplyPsychologicalPricing(price) ==
    IF price.cents >= 30000
    THEN RoundHalfEven((price.cents - 100) \div 100,
                       ((price.cents - 100) % 100) * SubCent + price.rem,
                       100 * SubCent) * 100 + 99
    ELSE IF price.cents >= 10000
    THEN RoundHalfEven((price.cents - 100) \div 100,
                       ((price.cents - 100) % 100) * SubCent + price.rem,
                       100 * SubCent) * 100 + 99
    ELSE IF price.cents >= 5000
    THEN RoundHalfEven(price.cents - 5, price.rem, SubCent)
    ELSE RoundHalfEven(price.cents, price.rem, SubCent)

\* variant: the upper limit left out
Clamp_LowerOnly(cfg, cents) == Max(cfg.min_price * 100, cents)

\* variant: the lower limit left out
Clamp_UpperOnly(cfg, cents) == Min(cfg.max_price * 100, cents)

\* max(self.min_price, min(self.max_price, optimal_price)), cents
Clamp(cfg, cents) ==
    Max(cfg.min_price * 100, Min(cfg.max_price * 100, cents))

\* variant: competition_ratio < 1.2 in the second test
GetPricingStrategy_StrictLeadership(d, ratio) ==
    IF d > 80 /\ ratio.num < ratio.den THEN "Premium Positioning"
    ELSE IF d > 60 /\ 10 * ratio.num < 12 * ratio.den THEN "Market Leadership"
    ELSE IF d > 40 THEN "Competitive Matching"
    ELSE "Value Positioning"

GetPricingStrategy(d, ratio) ==
    IF d > 80 /\ ratio.num < ratio.den THEN "Premium Positioning"
    ELSE IF d > 60 /\ 10 * ratio.num <= 12 * ratio.den THEN "Market Leadership"
    ELSE IF d > 40 THEN "Competitive Matching"
    ELSE "Value Positioning"

\* the local variables of one call
PriceLocals(cfg, a) ==
    LET base       == BasePrice(cfg, a.hotel_type, a.room_type)
        demand     == DemandMultiplier(a.demand_confidence)
        ratio      == CompetitionRatio(a.competition_price, base)
        adjustment == CompetitionAdjustment(ratio)
        season     == SeasonAdjustment(a.season_factor)
        raw        == RawPrice(base, demand, adjustment, season)
        psych      == ApplyPsychologicalPricing(raw)
    IN  [base_price             |-> base,
         room_multiplier        |-> RoomMultiplier(a.room_type),
         demand_multiplier      |-> demand,
         competition_ratio      |-> ratio,
         competition_adjustment |-> adjustment,
         season_adjustment      |-> season,
         raw_price              |-> raw,
         psychological_price    |-> psych,
         optimal_price          |-> Clamp(cfg, psych)]

\* variant: the returned multipliers rounded to 1 decimal
PriceResult_OneDecimal(a, l) ==
    [optimal_price          |-> l.optimal_price,
     base_price             |-> l.base_price * 100,
     demand_multiplier      |->
         RoundHalfEven(l.demand_multiplier \div 100,
                       l.demand_multiplier % 100, 100) * 10,
     competition_adjustment |->
         RoundHalfEven((l.competition_adjustment.num * 10)
                           \div l.competition_adjustment.den,
                       (l.competition_adjustment.num * 10)
                           % l.competition_adjustment.den,
                       l.competition_adjustment.den) * 10,
     season_adjustment      |-> l.season_adjustment,
     room_multiplier        |-> l.room_multiplier,
     pricing_strategy       |->
         GetPricingStrategy(a.demand_confidence, l.competition_ratio)]

\* the returned dict; prices in cents, multipliers in hundredths,
\* room_multiplier (returned unrounded) in tenths
PriceResult(a, l) ==
    [optimal_price          |-> l.optimal_price,
     base_price             |-> l.base_price * 100,
     demand_multiplier      |->
         RoundHalfEven(l.demand_multiplier \div 10,
                       l.demand_multiplier % 10, 10),
     competition_adjustment |->
         RoundHalfEven((l.competition_adjustment.num * 100)
                           \div l.competition_adjustment.den,
                       (l.competition_adjustment.num * 100)
                           % l.competition_adjustment.den,
                       l.competition_adjustment.den),
     season_adjustment      |-> l.season_adjustment,
     room_multiplier        |-> l.room_multiplier,
     pricing_strategy       |->
         GetPricingStrategy(a.demand_confidence, l.competition_ratio)]

\* the price a call with arguments a returns, cents
OptimalPrice(cfg, a) == PriceLocals(cfg, a).optimal_price

\* variant: the hotel premium multiplied into self.base_price
CalculateOptimalPrice_WritesBasePrice ==
    /\ call = Idle
    /\ \E a \in PriceArgs :
         /\ call' = [op      |-> "calculate_optimal_price",
                     args    |-> a,
                     locals  |-> PriceLocals(config, a),
                     outcome |-> "returned",
                     result  |-> PriceResult(a, PriceLocals(config, a))]
         /\ config' = [config EXCEPT !.base_price =
                          (config.base_price * HotelFactor(a.hotel_type))
                              \div 10]
    /\ UNCHANGED <<remembered, threads, predictor>>

CalculateOptimalPrice ==
    /\ call = Idle
    /\ \E a \in PriceArgs :
         call' =
           IF BasePrice(config, a.hotel_type, a.room_type) = 0
           THEN [op      |-> "calculate_optimal_price",
                 args    |-> a,
                 locals  |-> None,
                 outcome |-> "ZeroDivisionError",
                 result  |-> None]
           ELSE [op      |-> "calculate_optimal_price",
                 args    |-> a,
                 locals  |-> PriceLocals(config, a),
                 outcome |-> "returned",
                 result  |-> PriceResult(a, PriceLocals(config, a))]
    /\ UNCHANGED <<config, remembered, threads, predictor>>

-----------------------------------------------------------------------------
(* PricingOptimizer.estimate_occupancy and calculate_revenue *)

OccupancyPrices == {5000, 9995, 10000, 19999, 33299, 40000}

OccupancyArgs ==
    [price             : OccupancyPrices,
     demand_confidence : {0, 50, 78, 100},
     base_occupancy    : {50, 70}]

\* variant: only the lower bound applied, max(0.1, occupancy)
Occupancy_LowerBoundOnly(cfg, a) ==
    LET den == 100000 * cfg.base_price
        num == a.base_occupancy
                 * (1000 * cfg.base_price
                      + cfg.price_elasticity
                          * (a.price - 100 * cfg.base_price)
                      + 4 * (a.demand_confidence - 50) * cfg.base_price)
    IN  [num |-> Max(den \div 10, num),
         den |-> den]

\* variant: price_effect = -self.price_elasticity * (price_ratio - 1)
Occupancy_ElasticityNegated(cfg, a) ==
    LET den == 100000 * cfg.base_price
        num == a.base_occupancy
                 * (1000 * cfg.base_price
                      - cfg.price_elasticity
                          * (a.price - 100 * cfg.base_price)
                      + 4 * (a.demand_confidence - 50) * cfg.base_price)
    IN  [num |-> Max(den \div 10, Min((den \div 20) * 19, num)),
         den |-> den]

\* occupancy as a fraction over den = 100000 * base_price:
\* base_occupancy * (1 + price_effect + demand_effect), clamped to
\* [0.1, 0.95]
Occupancy(cfg, a) ==
    LET den == 100000 * cfg.base_price
        num == a.base_occupancy
                 * (1000 * cfg.base_price
                      + cfg.price_elasticity
                          * (a.price - 100 * cfg.base_price)
                      + 4 * (a.demand_confidence - 50) * cfg.base_price)
    IN  [num |-> Max(den \div 10, Min((den \div 20) * 19, num)),
         den |-> den]

EstimateOccupancy ==
    /\ call = Idle
    /\ \E a \in OccupancyArgs :
         call' =
           IF config.base_price = 0
           THEN [op      |-> "estimate_occupancy",
                 args    |-> a,
                 locals  |-> None,
                 outcome |-> "ZeroDivisionError",
                 result  |-> None]
           ELSE [op      |-> "estimate_occupancy",
                 args    |-> a,
                 locals  |-> None,
                 outcome |-> "returned",
                 result  |-> Occupancy(config, a)]
    /\ UNCHANGED <<config, remembered, threads, predictor>>

RevenueArgs ==
    [price       : {5000, 33299, 40000},
     occupancy   : {10, 70, 95},
     total_rooms : {100}]

\* price * occupancy * total_rooms, in 1/10000 dollar
Revenue(a) == a.price * a.occupancy * a.total_rooms

CalculateRevenue ==
    /\ call = Idle
    /\ \E a \in RevenueArgs :
         call' = [op      |-> "calculate_revenue",
                  args    |-> a,
                  locals  |-> None,
                  outcome |-> "returned",
                  result  |-> Revenue(a)]
    /\ UNCHANGED <<config, remembered, threads, predictor>>

-----------------------------------------------------------------------------
(* apply_psychological_pricing and get_pricing_strategy called directly *)

PsychologicalPricingArgs ==
    [cents : {4999, 5000, 9999, 10000, 20530, 20560, 29999, 30000, 45050},
     rem   : {0, 50000}]

CallApplyPsychologicalPricing ==
    /\ call = Idle
    /\ \E a \in PsychologicalPricingArgs :
         call' = [op      |-> "apply_psychological_pricing",
                  args    |-> a,
                  locals  |-> None,
                  outcome |-> "returned",
                  result  |-> ApplyPsychologicalPricing(a)]
    /\ UNCHANGED <<config, remembered, threads, predictor>>

PricingStrategyArgs ==
    [demand_confidence : {40, 41, 60, 61, 80, 81},
     competition_ratio : {[num |-> 99, den |-> 100],
                          [num |-> 100, den |-> 100],
                          [num |-> 120, den |-> 100],
                          [num |-> 121, den |-> 100]}]

CallGetPricingStrategy ==
    /\ call = Idle
    /\ \E a \in PricingStrategyArgs :
         call' = [op      |-> "get_pricing_strategy",
                  args    |-> a,
                  locals  |-> None,
                  outcome |-> "returned",
                  result  |-> GetPricingStrategy(a.demand_confidence,
                                                 a.competition_ratio)]
    /\ UNCHANGED <<config, remembered, threads, predictor>>

-----------------------------------------------------------------------------
(* The caller: single-threaded, one call at a time (main) *)

\* the caller takes the returned value (or the exception) and goes on
Return ==
    /\ call # Idle
    /\ call' = Idle
    /\ UNCHANGED <<config, remembered, threads, predictor>>

\* arguments whose first result the caller keeps for a later comparison
RememberedArgs ==
    {a \in PriceArgs : /\ a.demand_confidence = 78
                       /\ a.competition_price = 180
                       /\ a.season_factor = 12
                       /\ a.hotel_type = "Resort"}

\* the caller keeps the record a call of calculate_optimal_price returned,
\* and goes on
Remember ==
    /\ call.op = "calculate_optimal_price"
    /\ call.args \in RememberedArgs
    /\ remembered = None
    /\ remembered' = [args    |-> call.args,
                      outcome |-> call.outcome,
                      result  |-> call.result]
    /\ call' = Idle
    /\ UNCHANGED <<config, threads, predictor>>

-----------------------------------------------------------------------------
(* Several callers on one shared optimizer: each call advances one block   *)
(* of statements at a time, and the blocks of different callers interleave *)

\* number of concurrent callers
NumCallers == 2

Callers == 1..NumCallers

ConcurrentPriceArgs ==
    {a \in PriceArgs : /\ a.demand_confidence \in {50, 85}
                       /\ a.competition_price = 180
                       /\ a.season_factor = 12
                       /\ a.hotel_type = "Resort"
                       /\ a.room_type \in {"Standard", "Suite"}}

ConcurrentOccupancyArgs ==
    {a \in OccupancyArgs : /\ a.price \in {9995, 33299}
                           /\ a.demand_confidence = 78
                           /\ a.base_occupancy = 70}

ConcurrentRevenueArgs ==
    {a \in RevenueArgs : a.price = 33299 /\ a.occupancy = 70}

\* a caller that is not inside a call
ThreadIdle ==
    [op      |-> "idle",
     args    |-> None,
     pc      |-> "idle",
     locals  |-> None,
     outcome |-> "none",
     result  |-> None]

\* the locals of calculate_optimal_price before any is assigned
PriceLocalsUnset ==
    [base_price             |-> 0,
     room_multiplier        |-> 0,
     demand_multiplier      |-> 0,
     competition_ratio      |-> None,
     competition_adjustment |-> None,
     season_adjustment      |-> 0,
     raw_price              |-> None,
     psychological_price    |-> 0,
     optimal_price          |-> 0]

\* the locals of estimate_occupancy before any is assigned
OccupancyLocalsUnset ==
    [price_ratio  |-> None,
     price_effect |-> None]

Begin(t, op, a, locals, pc) ==
    threads' = [threads EXCEPT ![t] =
                   [op      |-> op,
                    args    |-> a,
                    pc      |-> pc,
                    locals  |-> locals,
                    outcome |-> "none",
                    result  |-> None]]

Advance(t, locals, pc) ==
    threads' = [threads EXCEPT ![t].locals = locals, ![t].pc = pc]

Finish(t, outcome, result) ==
    threads' = [threads EXCEPT ![t].outcome = outcome,
                               ![t].result = result,
                               ![t].pc = "done"]

BeginPrice(t) ==
    /\ threads[t].pc = "idle"
    /\ \E a \in ConcurrentPriceArgs :
         Begin(t, "calculate_optimal_price", a, PriceLocalsUnset, "base_price")
    /\ UNCHANGED <<config, call, remembered, predictor>>

\* variant: the multipliers applied to self.base_price itself
StepBasePrice_OnSelf(t) ==
    /\ threads[t].pc = "base_price"
    /\ LET a == threads[t].args IN
         /\ config' = [config EXCEPT !.base_price =
                          BasePrice(config, a.hotel_type, a.room_type)]
         /\ Advance(t, [threads[t].locals EXCEPT
                           !.base_price =
                               BasePrice(config, a.hotel_type, a.room_type),
                           !.room_multiplier = RoomMultiplier(a.room_type)],
                    "demand")
    /\ UNCHANGED <<call, remembered, predictor>>

\* base_price = self.base_price, the hotel and the room multiplier
StepBasePrice(t) ==
    /\ threads[t].pc = "base_price"
    /\ LET a == threads[t].args IN
         Advance(t, [threads[t].locals EXCEPT
                        !.base_price =
                            BasePrice(config, a.hotel_type, a.room_type),
                        !.room_multiplier = RoomMultiplier(a.room_type)],
                 "demand")
    /\ UNCHANGED <<config, call, remembered, predictor>>

StepDemand(t) ==
    /\ threads[t].pc = "demand"
    /\ Advance(t, [threads[t].locals EXCEPT
                      !.demand_multiplier =
                          DemandMultiplier(threads[t].args.demand_confidence)],
               "competition")
    /\ UNCHANGED <<config, call, remembered, predictor>>

StepCompetition(t) ==
    /\ threads[t].pc = "competition"
    /\ LET l     == threads[t].locals
           ratio == CompetitionRatio(threads[t].args.competition_price,
                                     l.base_price)
       IN  IF l.base_price = 0
           THEN Finish(t, "ZeroDivisionError", None)
           ELSE Advance(t, [l EXCEPT
                               !.competition_ratio = ratio,
                               !.competition_adjustment =
                                   CompetitionAdjustment(ratio)],
                        "season")
    /\ UNCHANGED <<config, call, remembered, predictor>>

StepSeason(t) ==
    /\ threads[t].pc = "season"
    /\ Advance(t, [threads[t].locals EXCEPT
                      !.season_adjustment =
                          SeasonAdjustment(threads[t].args.season_factor)],
               "combine")
    /\ UNCHANGED <<config, call, remembered, predictor>>

\* the product, then self.apply_psychological_pricing(optimal_price)
StepCombine(t) ==
    /\ threads[t].pc = "combine"
    /\ LET l   == threads[t].locals
           raw == RawPrice(l.base_price, l.demand_multiplier,
                           l.competition_adjustment, l.season_adjustment)
       IN  Advance(t, [l EXCEPT
                          !.raw_price = raw,
                          !.psychological_price =
                              ApplyPsychologicalPricing(raw)],
                   "clamp")
    /\ UNCHANGED <<config, call, remembered, predictor>>

\* max(self.min_price, min(self.max_price, optimal_price))
StepClamp(t) ==
    /\ threads[t].pc = "clamp"
    /\ Advance(t, [threads[t].locals EXCEPT
                      !.optimal_price =
                          Clamp(config, threads[t].locals.psychological_price)],
               "return")
    /\ UNCHANGED <<config, call, remembered, predictor>>

StepReturnPrice(t) ==
    /\ threads[t].pc = "return"
    /\ Finish(t, "returned", PriceResult(threads[t].args, threads[t].locals))
    /\ UNCHANGED <<config, call, remembered, predictor>>

BeginOccupancy(t) ==
    /\ threads[t].pc = "idle"
    /\ \E a \in ConcurrentOccupancyArgs :
         Begin(t, "estimate_occupancy", a, OccupancyLocalsUnset, "price_ratio")
    /\ UNCHANGED <<config, call, remembered, predictor>>

\* price_ratio = price / self.base_price
StepPriceRatio(t) ==
    /\ threads[t].pc = "price_ratio"
    /\ IF config.base_price = 0
       THEN Finish(t, "ZeroDivisionError", None)
       ELSE Advance(t, [threads[t].locals EXCEPT
                           !.price_ratio =
                               [num |-> threads[t].args.price,
                                den |-> 100 * config.base_price]],
                    "price_effect")
    /\ UNCHANGED <<config, call, remembered, predictor>>

\* price_effect = self.price_elasticity * (price_ratio - 1), as a fraction
\* over 10 * price_ratio.den
StepPriceEffect(t) ==
    /\ threads[t].pc = "price_effect"
    /\ LET ratio == threads[t].locals.price_ratio IN
         Advance(t, [threads[t].locals EXCEPT
                        !.price_effect =
                            [num |-> config.price_elasticity
                                       * (ratio.num - ratio.den),
                             den |-> 10 * ratio.den]],
                 "occupancy")
    /\ UNCHANGED <<config, call, remembered, predictor>>

\* demand_effect, occupancy and the bounds [0.1, 0.95]
StepOccupancy(t) ==
    /\ threads[t].pc = "occupancy"
    /\ LET a      == threads[t].args
           effect == threads[t].locals.price_effect
           den    == 100 * effect.den
           num    == a.base_occupancy
                       * (effect.den + effect.num
                            + 4 * (a.demand_confidence - 50)
                                * (effect.den \div 1000))
       IN  Finish(t, "returned",
                  [num |-> Max(den \div 10, Min((den \div 20) * 19, num)),
                   den |-> den])
    /\ UNCHANGED <<config, call, remembered, predictor>>

BeginRevenue(t) ==
    /\ threads[t].pc = "idle"
    /\ \E a \in ConcurrentRevenueArgs :
         Begin(t, "calculate_revenue", a, None, "revenue")
    /\ UNCHANGED <<config, call, remembered, predictor>>

StepRevenue(t) ==
    /\ threads[t].pc = "revenue"
    /\ Finish(t, "returned", Revenue(threads[t].args))
    /\ UNCHANGED <<config, call, remembered, predictor>>

\* the caller takes the result and is free for a next call
ThreadReturn(t) ==
    /\ threads[t].pc = "done"
    /\ threads' = [threads EXCEPT ![t] = ThreadIdle]
    /\ UNCHANGED <<config, call, remembered, predictor>>

-----------------------------------------------------------------------------
(* HotelDemandPredictor: the fields of one predictor and its methods.      *)
(* Library objects are kept by what the methods depend on: which model was *)
(* built or loaded, whether the scaler was fitted, the columns that have   *)
(* an encoder, the number of feature columns.  A prediction is a           *)
(* cancellation probability in hundredths.                                 *)

\* self.model is None
NoModel == "None"

NotTrained == "ValueError: Model not trained yet. Call train() first."

\* the feature columns listed before the encoded ones are appended
NumericFeatureColumns == 24

CategoricalColumns ==
    {"hotel", "meal", "country", "market_segment", "distribution_channel",
     "deposit_type", "customer_type", "reserved_room_type",
     "assigned_room_type", "booking_lead_time_category", "season"}

NewPredictor ==
    [model           |-> NoModel,
     scaler          |-> "new",
     label_encoders  |-> {},
     feature_columns |-> 0,
     sequence_length |-> 30,
     model_type      |-> "lstm"]

ModelTypes == {"lstm", "gru", "rnn"}

\* where a call of train stops: an exception out of the scaling, the
\* splitting or the fitting, or none
TrainStops == {"scale", "split", "fit", "none"}

\* what the five files under a path hold, written by save_model
SavedArtifacts ==
    [model           : {"lstm", "gru"},
     scaler          : {"new", "fitted"},
     label_encoders  : {{}, CategoricalColumns},
     feature_columns : {0, NumericFeatureColumns + Cardinality(CategoricalColumns)},
     sequence_length : {30}]

\* the first of the five files that cannot be read, 0 when all can
MissingFiles == 0..5

LeadTimes == {0, 7, 8, 30, 31, 90, 91, 365, 366}

Predictions == {0, 22, 30, 60, 100}

LeadTimeCategory(lead_time) ==
    IF lead_time <= 7 THEN "Last Minute"
    ELSE IF lead_time <= 30 THEN "Short"
    ELSE IF lead_time <= 90 THEN "Medium"
    ELSE IF lead_time <= 365 THEN "Long"
    ELSE "Very Long"

DemandLevel(demand_confidence) ==
    IF demand_confidence > 70 THEN "High"
    ELSE IF demand_confidence > 40 THEN "Medium"
    ELSE "Low"

\* pd.cut(df['lead_time'], bins=[0, 7, 30, 90, 365, inf], labels=...):
\* the bins are open on the left and closed on the right, (0, 7], (7, 30],
\* (30, 90], (90, 365], (365, inf]; a value in no bin gets NaN, which
\* astype(str) turns into 'nan' before the encoder is fitted
BookingLeadTimeCategory(lead_time) ==
    IF lead_time <= 0 THEN "nan"
    ELSE IF lead_time <= 7 THEN "Last Minute"
    ELSE IF lead_time <= 30 THEN "Short"
    ELSE IF lead_time <= 90 THEN "Medium"
    ELSE IF lead_time <= 365 THEN "Long"
    ELSE "Very Long"

\* the file at file_path: missing, or holding rows, kept by their lead_time
BookingFiles ==
    {[found |-> FALSE, lead_times |-> <<>>]}
        \cup {[found |-> TRUE, lead_times |-> <<lead_time>>] :
                 lead_time \in LeadTimes}

LoadAndPreprocessData ==
    /\ call = Idle
    /\ \E file \in BookingFiles :
         /\ predictor' =
              IF file.found
              THEN [predictor EXCEPT
                       !.label_encoders = CategoricalColumns,
                       !.feature_columns =
                           NumericFeatureColumns
                             + Cardinality(CategoricalColumns)]
              ELSE predictor
         /\ call' = [op      |-> "load_and_preprocess_data",
                     args    |-> file,
                     locals  |-> None,
                     outcome |-> "returned",
                     result  |->
                       IF file.found
                       THEN [X  |-> "X",
                             y  |-> "y",
                             df |-> [i \in 1..Len(file.lead_times) |->
                                       [lead_time |-> file.lead_times[i],
                                        booking_lead_time_category |->
                                            BookingLeadTimeCategory(
                                                file.lead_times[i])]]]
                       ELSE None]
    /\ UNCHANGED <<config, remembered, threads>>

Train ==
    /\ call = Idle
    /\ \E model_type \in ModelTypes, stop \in TrainStops :
         /\ predictor' =
              [predictor EXCEPT
                  !.model_type = model_type,
                  !.scaler = IF stop = "scale" THEN @ ELSE "fitted",
                  !.model  = IF stop \in {"scale", "split"} THEN @
                             ELSE IF model_type = "lstm" THEN "lstm"
                             ELSE "gru"]
         /\ call' = [op      |-> "train",
                     args    |-> [model_type |-> model_type, stop |-> stop],
                     locals  |-> None,
                     outcome |-> IF stop = "none" THEN "returned"
                                 ELSE "raised",
                     result  |-> None]
    /\ UNCHANGED <<config, remembered, threads>>

SaveModel ==
    /\ call = Idle
    /\ call' = [op      |-> "save_model",
                args    |-> None,
                locals  |-> None,
                outcome |-> IF predictor.model = NoModel
                            THEN "AttributeError" ELSE "returned",
                result  |-> None]
    /\ UNCHANGED <<config, remembered, threads, predictor>>

LoadModel ==
    /\ call = Idle
    /\ \E saved \in SavedArtifacts, missing \in MissingFiles :
         LET read(n) == missing = 0 \/ missing > n IN
         /\ predictor' =
              [predictor EXCEPT
                  !.model           = IF read(1) THEN saved.model ELSE @,
                  !.scaler          = IF read(2) THEN saved.scaler ELSE @,
                  !.label_encoders  = IF read(3) THEN saved.label_encoders
                                      ELSE @,
                  !.feature_columns = IF read(4) THEN saved.feature_columns
                                      ELSE @,
                  !.sequence_length = IF read(5) THEN saved.sequence_length
                                      ELSE @]
         /\ call' = [op      |-> "load_model",
                     args    |-> [saved |-> saved, missing |-> missing],
                     locals  |-> None,
                     outcome |-> IF missing = 0 THEN "returned" ELSE "raised",
                     result  |-> None]
    /\ UNCHANGED <<config, remembered, threads>>

PredictDemandResult(input_data, prediction) ==
    [demand_confidence        |-> 100 - prediction,
     cancellation_probability |-> prediction,
     demand_level             |-> DemandLevel(100 - prediction),
     features_used            |-> predictor.feature_columns,
     model_type               |-> predictor.model_type]

\* variant: no test of self.model
PredictDemand_Unguarded ==
    /\ call = Idle
    /\ \E input_data \in [lead_time : LeadTimes], prediction \in Predictions :
         call' =
           IF predictor.model = NoModel
           THEN [op      |-> "predict_demand",
                 args    |-> input_data,
                 locals  |-> None,
                 outcome |-> "AttributeError",
                 result  |-> None]
           ELSE IF predictor.scaler = "new"
           THEN [op      |-> "predict_demand",
                 args    |-> input_data,
                 locals  |-> None,
                 outcome |-> "NotFittedError",
                 result  |-> None]
           ELSE [op      |-> "predict_demand",
                 args    |-> input_data,
                 locals  |-> [booking_lead_time_category |->
                                  LeadTimeCategory(input_data.lead_time)],
                 outcome |-> "returned",
                 result  |-> PredictDemandResult(input_data, prediction)]
    /\ UNCHANGED <<config, remembered, threads, predictor>>

PredictDemand ==
    /\ call = Idle
    /\ \E input_data \in [lead_time : LeadTimes], prediction \in Predictions :
         call' =
           IF predictor.model = NoModel
           THEN [op      |-> "predict_demand",
                 args    |-> input_data,
                 locals  |-> None,
                 outcome |-> NotTrained,
                 result  |-> None]
           ELSE IF predictor.scaler = "new"
           THEN [op      |-> "predict_demand",
                 args    |-> input_data,
                 locals  |-> None,
                 outcome |-> "NotFittedError",
                 result  |-> None]
           ELSE [op      |-> "predict_demand",
                 args    |-> input_data,
                 locals  |-> [booking_lead_time_category |->
                                  LeadTimeCategory(input_data.lead_time)],
                 outcome |-> "returned",
                 result  |-> PredictDemandResult(input_data, prediction)]
    /\ UNCHANGED <<config, remembered, threads, predictor>>

-----------------------------------------------------------------------------
(* Specifications: one optimizer, any sequence of calls *)

Init ==
    /\ config = NewConfig
    /\ call = Idle
    /\ remembered = None
    /\ threads = [t \in Callers |-> ThreadIdle]
    /\ predictor = NewPredictor

Next ==
    \/ CalculateOptimalPrice
    \/ EstimateOccupancy
    \/ CalculateRevenue
    \/ CallApplyPsychologicalPricing
    \/ CallGetPricingStrategy
    \/ Return

Spec == Init /\ [][Next]_vars

NextRemember ==
    \/ Next
    \/ Remember

SpecRemember == Init /\ [][NextRemember]_vars

NextConcurrent ==
    \E t \in Callers :
        \/ BeginPrice(t)
        \/ StepBasePrice(t)
        \/ StepDemand(t)
        \/ StepCompetition(t)
        \/ StepSeason(t)
        \/ StepCombine(t)
        \/ StepClamp(t)
        \/ StepReturnPrice(t)
        \/ BeginOccupancy(t)
        \/ StepPriceRatio(t)
        \/ StepPriceEffect(t)
        \/ StepOccupancy(t)
        \/ BeginRevenue(t)
        \/ StepRevenue(t)
        \/ ThreadReturn(t)

SpecConcurrent == Init /\ [][NextConcurrent]_vars

NextPredictor ==
    \/ LoadAndPreprocessData
    \/ Train
    \/ SaveModel
    \/ LoadModel
    \/ PredictDemand
    \/ Return

SpecPredictor == Init /\ [][NextPredictor]_vars

-----------------------------------------------------------------------------
(* Properties *)

PriceCall == call.op = "calculate_optimal_price"

\* the documented input ranges: demand_confidence in [0,1],
\* competition_price > 0, season_factor >= 0
ValidArgs(a) ==
    /\ a.demand_confidence \in ValidDemand
    /\ a.competition_price > 0
    /\ a.season_factor >= 0

ValidPriceCall == PriceCall /\ ValidArgs(call.args)

StrategyLabels ==
    {"Premium Positioning", "Market Leadership",
     "Competitive Matching", "Value Positioning"}

\* the price returned for the arguments of the current call with
\* demand_confidence replaced by d
PriceAtDemand(d) ==
    OptimalPrice(config, [call.args EXCEPT !.demand_confidence = d])

\* the price returned for the arguments of the current call with
\* room_type replaced by r
PriceForRoom(r) ==
    OptimalPrice(config, [call.args EXCEPT !.room_type = r])

\* C1: for every valid input the returned optimal_price lies in
\* [min_price, max_price] = [50, 400], whatever the product of the
\* multipliers is.
C1_PriceWithinLimits ==
    ValidPriceCall =>
        /\ call.outcome = "returned"
        /\ call.result.optimal_price >= 5000
        /\ call.result.optimal_price <= 40000

\* a valid call whose rounded price exceeded 400 and was cut to 400
C1_Witness ==
    /\ ValidPriceCall
    /\ call.locals.psychological_price > 40000
    /\ call.result.optimal_price = 40000

\* C2: with the other inputs fixed, the returned optimal_price is
\* non-decreasing in demand_confidence over [0,1], across the breakpoints
\* 0.5 and 0.8 and after rounding and clamping.
C2_MonotoneInDemand ==
    ValidPriceCall =>
        \A d \in ValidDemand :
            d >= call.args.demand_confidence =>
                PriceAtDemand(d) >= call.result.optimal_price

\* a valid call at the breakpoint 0.5 whose price rises strictly at 0.51,
\* and again from 0.8 to 0.81
C2_Witness ==
    /\ ValidPriceCall
    /\ call.args.demand_confidence = 50
    /\ call.result.optimal_price < PriceAtDemand(51)
    /\ PriceAtDemand(80) < PriceAtDemand(81)

\* C3 as stated: for fixed other inputs the price is strictly ordered by
\* room type, Presidential > Suite > Deluxe > Standard.
C3_StrictRoomOrdering ==
    (ValidPriceCall /\ call.args.room_type = "Standard") =>
        /\ PriceForRoom("Presidential") > PriceForRoom("Suite")
        /\ PriceForRoom("Suite") > PriceForRoom("Deluxe")
        /\ PriceForRoom("Deluxe") > call.result.optimal_price

\* C3 amended: the price is ordered Presidential >= Suite >= Deluxe >=
\* Standard, and each step is strict unless the lower price of the step is
\* already max_price (400), where the clamp makes the two equal.
C3_RoomOrdering ==
    (ValidPriceCall /\ call.args.room_type = "Standard") =>
        LET standard     == call.result.optimal_price
            deluxe       == PriceForRoom("Deluxe")
            suite        == PriceForRoom("Suite")
            presidential == PriceForRoom("Presidential")
        IN  /\ deluxe >= standard
            /\ suite >= deluxe
            /\ presidential >= suite
            /\ standard < 40000 => deluxe > standard
            /\ deluxe < 40000 => suite > deluxe
            /\ suite < 40000 => presidential > suite

\* a valid Standard call below the limit whose Suite and Presidential
\* prices are both cut to 400
C3_Witness ==
    /\ ValidPriceCall
    /\ call.args.room_type = "Standard"
    /\ call.result.optimal_price < PriceForRoom("Deluxe")
    /\ PriceForRoom("Deluxe") < 40000
    /\ PriceForRoom("Suite") = 40000
    /\ PriceForRoom("Presidential") = 40000

\* the call main() makes
MainScenario ==
    [demand_confidence |-> 78,
     competition_price |-> 180,
     season_factor     |-> 12,
     hotel_type        |-> "Resort",
     room_type         |-> "Deluxe"]

\* C4: for demand_confidence 0.78, competition_price 180, season_factor
\* 1.2, Resort, Deluxe the call returns base_price 156, demand_multiplier
\* 1.28, season_adjustment 1.64, optimal_price 332.99 (the >= 300 branch,
\* not changed by the clamp) and the strategy Market Leadership.
C4_MainScenario ==
    (PriceCall /\ call.args = MainScenario) =>
        /\ call.outcome = "returned"
        /\ call.result.base_price = 15600
        /\ call.result.demand_multiplier = 128
        /\ call.result.season_adjustment = 164
        /\ call.locals.raw_price.cents >= 30000
        /\ call.locals.psychological_price = 33299
        /\ call.result.optimal_price = 33299
        /\ call.result.pricing_strategy = "Market Leadership"

\* the call of main() has returned
C4_Witness ==
    /\ PriceCall
    /\ call.args = MainScenario
    /\ call.outcome = "returned"

\* C5 as stated: a call with competition_price <= 0 fails with an
\* invalid-input error and produces no result.
C5_NonPositiveCompetitionRejected ==
    (PriceCall /\ call.args.competition_price <= 0) =>
        /\ call.outcome = "InvalidInput"
        /\ call.result = None

\* C5 amended: a call with competition_price <= 0 does not fail: the ratio
\* competition_price / base_price is <= 0 < 0.8, the competition adjustment
\* is 1.15, and a full result is returned, with optimal_price in [50, 400]
\* and one of the four strategy labels.
C5_NonPositiveCompetitionPriced ==
    (PriceCall /\ call.args.competition_price <= 0) =>
        /\ call.outcome = "returned"
        /\ call.locals.competition_ratio.den > 0
        /\ call.locals.competition_ratio.num <= 0
        /\ call.locals.competition_adjustment = [num |-> 115, den |-> 100]
        /\ call.result.competition_adjustment = 115
        /\ call.result.optimal_price >= 5000
        /\ call.result.optimal_price <= 40000
        /\ call.result.pricing_strategy \in StrategyLabels

\* a call with a negative competition_price has returned a price
C5_Witness ==
    /\ PriceCall
    /\ call.args.competition_price < 0
    /\ call.outcome = "returned"
    /\ call.result.optimal_price > 5000

\* C6 as stated: at demand_confidence 0.5 and at 0.8 the branch below the
\* breakpoint and the branch above it give the same multiplier.
C6_ContinuousAtBothBreakpoints ==
    PriceCall =>
        /\ call.args.demand_confidence = 50 =>
               call.locals.demand_multiplier = DemandMid(50)
        /\ call.args.demand_confidence = 80 =>
               call.locals.demand_multiplier = DemandHigh(80)

\* C6 amended: the multiplier is continuous at 0.5, where both branches
\* give 1.0; at 0.8 the branch below gives 1.3 and the branch above 1.5, so
\* the multiplier jumps up by 0.2 as demand_confidence crosses 0.8.
C6_ContinuousAtHalfJumpAtEightTenths ==
    PriceCall =>
        /\ call.args.demand_confidence = 50 =>
               /\ call.locals.demand_multiplier = 1000
               /\ DemandMid(50) = call.locals.demand_multiplier
        /\ call.args.demand_confidence = 51 =>
               call.locals.demand_multiplier - DemandMultiplier(50) = 10
        /\ call.args.demand_confidence = 80 =>
               /\ call.locals.demand_multiplier = 1300
               /\ DemandHigh(80) - call.locals.demand_multiplier = 200
        /\ call.args.demand_confidence = 81 =>
               call.locals.demand_multiplier - DemandMultiplier(80) = 225

\* a call at the breakpoint 0.8, computed by the branch below it
C6_Witness ==
    /\ PriceCall
    /\ call.args.demand_confidence = 80
    /\ call.locals.demand_multiplier = DemandMid(80)

\* C7 as stated: the multiplier is 0.7 at demand_confidence 0 and 2.25 at
\* 1, and within [0.7, 2.25] on [0,1].
C7_DemandMultiplierUpTo225 ==
    (PriceCall /\ call.args.demand_confidence \in ValidDemand) =>
        /\ call.locals.demand_multiplier >= 700
        /\ call.locals.demand_multiplier <= 2250
        /\ call.args.demand_confidence = 0 =>
               call.locals.demand_multiplier = 700
        /\ call.args.demand_confidence = 100 =>
               call.locals.demand_multiplier = 2250

\* C7 amended: the multiplier is 0.7 at demand_confidence 0 and 2.0 at 1,
\* and within [0.7, 2.0] on [0,1].
C7_DemandMultiplierUpTo2 ==
    (PriceCall /\ call.args.demand_confidence \in ValidDemand) =>
        /\ call.locals.demand_multiplier >= 700
        /\ call.locals.demand_multiplier <= 2000
        /\ call.args.demand_confidence = 0 =>
               call.locals.demand_multiplier = 700
        /\ call.args.demand_confidence = 100 =>
               call.locals.demand_multiplier = 2000

\* a call at demand_confidence 1, computed by the premium branch
C7_Witness ==
    /\ PriceCall
    /\ call.args.demand_confidence = 100
    /\ call.locals.demand_multiplier = DemandHigh(100)

\* C8: for every valid input the returned demand_multiplier,
\* competition_adjustment, season_adjustment and room_multiplier are > 0.
C8_MultipliersPositive ==
    ValidPriceCall =>
        /\ call.outcome = "returned"
        /\ call.locals.demand_multiplier > 0
        /\ call.locals.competition_adjustment.num > 0
        /\ call.locals.competition_adjustment.den > 0
        /\ call.locals.season_adjustment > 0
        /\ call.result.demand_multiplier > 0
        /\ call.result.competition_adjustment > 0
        /\ call.result.season_adjustment > 0
        /\ call.result.room_multiplier > 0

\* a valid call at the low end of every factor: no demand, off season, a
\* far higher competitor
C8_Witness ==
    /\ ValidPriceCall
    /\ call.args.demand_confidence = 0
    /\ call.args.season_factor = 0
    /\ call.result.competition_adjustment = 95
    /\ call.result.demand_multiplier = 70
    /\ call.result.season_adjustment = 80

\* C9: every raw combined price >= 100 leaves apply_psychological_pricing,
\* before the clamp, with fractional part exactly 0.99.
C9_EndsIn99From100 ==
    (PriceCall /\ call.outcome = "returned"
               /\ call.locals.raw_price.cents >= 10000) =>
        call.locals.psychological_price % 100 = 99

\* a raw price in [100, 300) that is not a whole number of dollars
C9_Witness ==
    /\ PriceCall
    /\ call.outcome = "returned"
    /\ call.locals.raw_price.cents >= 10000
    /\ call.locals.raw_price.cents < 30000
    /\ call.locals.raw_price.cents % 100 # 0
    /\ call.locals.psychological_price % 100 = 99

\* C10: a call with the arguments of an earlier call returns the record
\* the earlier call returned, whatever calls were made in between.
C10_SameArgsSameRecord ==
    (PriceCall /\ remembered # None /\ call.args = remembered.args) =>
        /\ call.outcome = remembered.outcome
        /\ call.result = remembered.result

\* a second call with the arguments of a call whose record was kept
C10_Witness ==
    /\ PriceCall
    /\ remembered # None
    /\ call.args = remembered.args
    /\ call.outcome = "returned"

\* the record returned for the arguments a
ResultFor(a) == PriceResult(a, PriceLocals(config, a))

\* C11: an unrecognized room_type or hotel_type never makes the call fail:
\* an unknown room_type gets room_multiplier 1.0 and the result of
\* 'Standard', an unknown hotel_type leaves the base price unmultiplied and
\* gets the result of 'City'.
C11_UnknownTypesNeutral ==
    PriceCall =>
        /\ call.args.room_type \notin
               {"Standard", "Deluxe", "Suite", "Presidential"} =>
               /\ call.outcome = "returned"
               /\ call.result.room_multiplier = 10
               /\ call.result =
                      ResultFor([call.args EXCEPT !.room_type = "Standard"])
        /\ call.args.hotel_type \notin {"Resort", "City"} =>
               /\ call.outcome = "returned"
               /\ call.locals.base_price * 10 =
                      config.base_price * call.locals.room_multiplier
               /\ call.result =
                      ResultFor([call.args EXCEPT !.hotel_type = "City"])

\* a call with an unknown hotel type and an unknown room type has returned
\* a price on the unmultiplied base price of 100
C11_Witness ==
    /\ PriceCall
    /\ call.args.hotel_type = "Hostel"
    /\ call.args.room_type = "Penthouse"
    /\ call.outcome = "returned"
    /\ call.result.base_price = 10000

\* C12: the strategy label is the first match of: Premium Positioning if
\* demand_confidence > 0.8 and ratio < 1.0; Market Leadership if
\* demand_confidence > 0.6 and ratio <= 1.2; Competitive Matching if
\* demand_confidence > 0.4; else Value Positioning, with ratio =
\* competition_price / base price after the hotel and room multipliers; it
\* is one of the four labels and does not depend on season_factor or on
\* the clamp.
C12_StrategyFirstMatch ==
    (PriceCall /\ call.outcome = "returned") =>
        LET d    == call.args.demand_confidence
            cp   == call.args.competition_price
            base == call.locals.base_price
        IN  /\ call.result.pricing_strategy \in StrategyLabels
            /\ call.result.pricing_strategy =
                 IF d > 80 /\ cp < base THEN "Premium Positioning"
                 ELSE IF d > 60 /\ 10 * cp <= 12 * base
                      THEN "Market Leadership"
                 ELSE IF d > 40 THEN "Competitive Matching"
                 ELSE "Value Positioning"
            /\ \A sf \in SeasonFactors :
                 ResultFor([call.args EXCEPT !.season_factor = sf])
                     .pricing_strategy = call.result.pricing_strategy

\* a call at ratio 1.2 exactly, labelled by the second rule, whose
\* price the clamp cut to 400
C12_Witness ==
    /\ PriceCall
    /\ call.outcome = "returned"
    /\ call.args.demand_confidence > 80
    /\ 10 * call.args.competition_price = 12 * call.locals.base_price
    /\ call.locals.psychological_price > 40000
    /\ call.result.pricing_strategy = "Market Leadership"

OccupancyCall == call.op = "estimate_occupancy"

\* C13: estimate_occupancy returns base_occupancy * (1 + elasticity *
\* (price / base_price - 1) + (demand_confidence - 0.5) * 0.4) clamped to
\* [0.1, 0.95], with base_price 100 and elasticity -1.8, so the result is
\* always within [0.1, 0.95].
C13_OccupancyFormula ==
    OccupancyCall =>
        LET unclamped ==
                call.args.base_occupancy
                    * (100000 - 18 * (call.args.price - 10000)
                         + 400 * (call.args.demand_confidence - 50))
        IN  /\ call.outcome = "returned"
            /\ call.result.den = 10000000
            /\ call.result.num =
                 IF unclamped < 1000000 THEN 1000000
                 ELSE IF unclamped > 9500000 THEN 9500000
                 ELSE unclamped
            /\ 10 * call.result.num >= call.result.den
            /\ 20 * call.result.num <= 19 * call.result.den

\* a call whose occupancy is the formula's value 0.7 * (1 + 0.0009 + 0.112),
\* inside the bounds
C13_Witness ==
    /\ OccupancyCall
    /\ call.args = [price |-> 9995, demand_confidence |-> 78,
                    base_occupancy |-> 70]
    /\ call.result = [num |-> 7790300, den |-> 10000000]

\* C14: the configuration set by the constructor (base_price 100,
\* price_elasticity -1.8, min_price 50, max_price 400) is the
\* configuration after any sequence of calls of the five operations.
C14_ConfigurationUnchanged ==
    /\ config.base_price = 100
    /\ config.price_elasticity = -18
    /\ config.min_price = 50
    /\ config.max_price = 400

\* after a first call of calculate_optimal_price whose record was kept,
\* a later call of another operation has returned
C14_Witness ==
    /\ remembered # None
    /\ call.op \in {"estimate_occupancy", "calculate_revenue",
                    "apply_psychological_pricing", "get_pricing_strategy"}
    /\ call.outcome = "returned"

\* what a consumer computes from a returned record r: the product of the
\* returned base_price and the three returned adjustments, then the
\* psychological rounding and the clamp
RecombinedRawPrice(r) ==
    RawPrice(r.base_price \div 100,
             r.demand_multiplier * 10,
             [num |-> r.competition_adjustment, den |-> 100],
             r.season_adjustment)

RecombinedPrice(cfg, r) ==
    Clamp(cfg, ApplyPsychologicalPricing(RecombinedRawPrice(r)))

\* the raw price is exactly halfway between two results of the rounding
RoundingTie(raw) ==
    IF raw.cents >= 10000
    THEN raw.cents % 100 = 50 /\ raw.rem = 0
    ELSE 2 * raw.rem = SubCent

C17_AdjustmentFromRatio ==
    (PriceCall /\ call.outcome = "returned") =>
        LET cp   == call.args.competition_price
            base == call.locals.base_price
        IN  /\ call.locals.competition_adjustment =
                 IF 10 * cp < 8 * base THEN [num |-> 115, den |-> 100]
                 ELSE IF 10 * cp > 12 * base THEN [num |-> 95, den |-> 100]
                 ELSE [num |-> 9 * base + cp, den |-> 10 * base]
            /\ \A d \in DemandConfidences :
                 PriceLocals(config,
                             [call.args EXCEPT !.demand_confidence = d])
                     .competition_adjustment
                   = call.locals.competition_adjustment
            /\ \A sf \in SeasonFactors :
                 PriceLocals(config, [call.args EXCEPT !.season_factor = sf])
                     .competition_adjustment
                   = call.locals.competition_adjustment

\* a call at ratio 0.8 exactly, adjusted by the linear branch to 0.98
C17_Witness ==
    /\ PriceCall
    /\ call.outcome = "returned"
    /\ 10 * call.args.competition_price = 8 * call.locals.base_price
    /\ call.result.competition_adjustment = 98

\* the fractional part of a raw price, in units of 1 / (100 * SubCent)
\* dollar
DollarFraction(raw) == (raw.cents % 100) * SubCent + raw.rem

\* C18 as stated: for every raw price >= 100 the result is (the raw price
\* rounded down to an integer, minus 1) plus 0.99, strictly below the raw
\* price.
C18_RoundsDownBelowRaw ==
    (PriceCall /\ call.outcome = "returned"
               /\ call.locals.raw_price.cents >= 10000) =>
        LET raw == call.locals.raw_price
            p   == call.locals.psychological_price
        IN  /\ p = ((raw.cents \div 100) - 1) * 100 + 99
            /\ p < raw.cents \/ (p = raw.cents /\ raw.rem > 0)

\* C18 amended: for every raw price >= 100 the result is (raw price - 1
\* rounded to the NEAREST integer) plus 0.99: with a fractional part below
\* 0.5 it is (raw rounded down, minus 1) + 0.99, strictly below the raw
\* price; with a fractional part above 0.5 it is (raw rounded down) +
\* 0.99, above the raw price when the fractional part is below 0.99.  It
\* is never more than 0.49 above nor more than 0.51 below the raw price.
C18_RoundsToNearest ==
    (PriceCall /\ call.outcome = "returned"
               /\ call.locals.raw_price.cents >= 10000) =>
        LET raw == call.locals.raw_price
            p   == call.locals.psychological_price
        IN  /\ p % 100 = 99
            /\ p <= raw.cents + 49
            /\ p >= raw.cents - 51 + (IF raw.rem > 0 THEN 1 ELSE 0)
            /\ 2 * DollarFraction(raw) < 100 * SubCent =>
                   /\ p = ((raw.cents \div 100) - 1) * 100 + 99
                   /\ p < raw.cents
            /\ 2 * DollarFraction(raw) > 100 * SubCent =>
                   /\ p = (raw.cents \div 100) * 100 + 99
                   /\ raw.cents % 100 < 99 => p > raw.cents

\* a raw price >= 100 with a fractional part above 0.5, priced above it
C18_Witness ==
    /\ PriceCall
    /\ call.outcome = "returned"
    /\ call.locals.raw_price.cents >= 10000
    /\ 2 * DollarFraction(call.locals.raw_price) > 100 * SubCent
    /\ call.locals.raw_price.cents % 100 < 99
    /\ call.locals.psychological_price > call.locals.raw_price.cents

\* C19: a demand_confidence below 0 or above 1 (competition_price > 0,
\* season_factor >= 0) raises no error: an optimal_price within [50, 400]
\* and one of the four strategy labels are returned.
C19_OutOfRangeDemandPriced ==
    (/\ PriceCall
     /\ call.args.demand_confidence \notin ValidDemand
     /\ call.args.competition_price > 0
     /\ call.args.season_factor >= 0) =>
        /\ call.outcome = "returned"
        /\ call.result.optimal_price >= 5000
        /\ call.result.optimal_price <= 40000
        /\ call.result.pricing_strategy \in StrategyLabels

\* a call with a demand_confidence so far below 0 that the raw price is
\* negative, returned as min_price
C19_Witness ==
    /\ PriceCall
    /\ call.args.demand_confidence < 0
    /\ call.args.competition_price > 0
    /\ call.outcome = "returned"
    /\ call.locals.raw_price.cents < 0
    /\ call.result.optimal_price = 5000

\* what a call returns when it runs alone on a new optimizer
ResultAlone(op, a) ==
    IF op = "calculate_optimal_price"
    THEN PriceResult(a, PriceLocals(NewConfig, a))
    ELSE IF op = "estimate_occupancy" THEN Occupancy(NewConfig, a)
    ELSE Revenue(a)

\* C15: under every interleaving of the steps of concurrent calls of
\* calculate_optimal_price, estimate_occupancy and calculate_revenue on one
\* optimizer, each call returns the result it returns when run alone; a
\* step writes only the locals of its own call and leaves the
\* configuration as it is.
C15_ConcurrentCallsAsAlone ==
    /\ [](\A t \in Callers :
            threads[t].pc = "done" =>
                /\ threads[t].outcome = "returned"
                /\ threads[t].result =
                       ResultAlone(threads[t].op, threads[t].args))
    /\ [][/\ config' = config
          /\ \A t, u \in Callers :
                (threads'[t] # threads[t] /\ threads'[u] # threads[u])
                    => t = u]_vars

\* caller 1 has returned from calculate_optimal_price while caller 2, with
\* other arguments, is inside the same method, before it reads the limits
C15_Witness ==
    /\ threads[1].op = "calculate_optimal_price"
    /\ threads[1].pc = "done"
    /\ threads[1].outcome = "returned"
    /\ threads[2].op = "calculate_optimal_price"
    /\ threads[2].pc = "clamp"
    /\ threads[2].args # threads[1].args

\* C20: predict_demand raises ValueError('Model not trained yet. Call
\* train() first.') whenever self.model is None, and that call leaves every
\* field of the predictor as it was; a new predictor has no model, only
\* train and load_model set one, a call of either that returns has set it,
\* no method unsets it, and with a model set predict_demand does not raise
\* this error.
C20_NotTrainedExactlyWithoutModel ==
    /\ predictor.model = NoModel
    /\ [][/\ call'.op = "predict_demand" =>
                /\ predictor.model = NoModel =>
                      call'.outcome = NotTrained /\ predictor' = predictor
                /\ predictor.model # NoModel => call'.outcome # NotTrained
          /\ predictor.model # NoModel => predictor'.model # NoModel
          /\ predictor'.model # predictor.model =>
                call'.op \in {"train", "load_model"}
          /\ (call'.op \in {"train", "load_model"}
                /\ call'.outcome = "returned") =>
                predictor'.model # NoModel]_vars

\* a call of train stopped after it set model_type and fitted the scaler
\* and before it built a model; the next predict_demand raised the error
C20_Witness ==
    /\ call.op = "predict_demand"
    /\ call.outcome = NotTrained
    /\ predictor.model = NoModel
    /\ predictor.model_type = "gru"
    /\ predictor.scaler = "fitted"

\* the price returned for the arguments of the current call with
\* competition_price replaced by cp
PriceAtCompetition(cp) ==
    OptimalPrice(config, [call.args EXCEPT !.competition_price = cp])

\* the branch of the competition adjustment that competition_price cp
\* takes with the hotel and room of the current call
CompetitionBand(cp) ==
    LET base == BasePrice(config, call.args.hotel_type, call.args.room_type)
    IN  IF 10 * cp < 8 * base THEN "below"
        ELSE IF 10 * cp > 12 * base THEN "above"
        ELSE "linear"

\* C21 as stated: with the other inputs fixed, the returned optimal_price
\* is non-decreasing in competition_price over competition_price > 0.
C21_MonotoneInCompetition ==
    ValidPriceCall =>
        \A cp \in CompetitionPrices :
            cp >= call.args.competition_price =>
                PriceAtCompetition(cp) >= call.result.optimal_price

\* C21: with the other inputs fixed, the returned optimal_price is
\* non-decreasing in competition_price as long as the two competition
\* prices take the same branch of the adjustment (ratio < 0.8, ratio in
\* [0.8, 1.2], ratio > 1.2), and constant within each of the two outer
\* branches; a competition price above ratio 1.2 never yields a higher
\* price than any lower competition price.
C21_MonotoneWithinBranch ==
    ValidPriceCall =>
        \A cp \in CompetitionPrices :
            cp >= call.args.competition_price =>
                /\ CompetitionBand(cp)
                     = CompetitionBand(call.args.competition_price) =>
                       PriceAtCompetition(cp) >= call.result.optimal_price
                /\ (CompetitionBand(cp) # "linear"
                      /\ CompetitionBand(cp)
                           = CompetitionBand(call.args.competition_price)) =>
                       PriceAtCompetition(cp) = call.result.optimal_price
                /\ CompetitionBand(cp) = "above" =>
                       PriceAtCompetition(cp) <= call.result.optimal_price

\* a valid call in the linear branch whose price rises strictly at a higher
\* competition price of the same branch, and falls below it at a
\* competition price above ratio 1.2
C21_Witness ==
    /\ ValidPriceCall
    /\ CompetitionBand(call.args.competition_price) = "linear"
    /\ \E cp \in CompetitionPrices :
         /\ cp > call.args.competition_price
         /\ CompetitionBand(cp) = "linear"
         /\ PriceAtCompetition(cp) > call.result.optimal_price
    /\ \E cp \in CompetitionPrices :
         /\ CompetitionBand(cp) = "above"
         /\ PriceAtCompetition(cp) < call.result.optimal_price

\* the occupancy returned for the arguments of the current call with price
\* replaced by p; every result is a fraction over the same denominator
OccupancyAtPrice(p) ==
    Occupancy(config, [call.args EXCEPT !.price = p]).num

\* the occupancy returned for the arguments of the current call with
\* demand_confidence replaced by d
OccupancyAtDemand(d) ==
    Occupancy(config, [call.args EXCEPT !.demand_confidence = d]).num

\* C22: with base_occupancy > 0, the occupancy returned by
\* estimate_occupancy is non-increasing in price for fixed
\* demand_confidence and non-decreasing in demand_confidence for fixed
\* price, also where it is clamped at 0.1 or at 0.95.
C22_OccupancyMonotone ==
    (OccupancyCall /\ call.args.base_occupancy > 0) =>
        /\ call.outcome = "returned"
        /\ \A p \in OccupancyPrices :
              p >= call.args.price => OccupancyAtPrice(p) <= call.result.num
        /\ \A d \in ValidDemand :
              d >= call.args.demand_confidence =>
                  OccupancyAtDemand(d) >= call.result.num

\* a call whose occupancy is inside the bounds, falls strictly at a higher
\* price down to the bound 0.1 and rises strictly with demand_confidence,
\* while at the lowest price it is held at 0.95
C22_Witness ==
    /\ OccupancyCall
    /\ call.args.base_occupancy > 0
    /\ 10 * call.result.num > call.result.den
    /\ 20 * call.result.num < 19 * call.result.den
    /\ \E p \in OccupancyPrices :
         /\ p > call.args.price
         /\ OccupancyAtPrice(p) < call.result.num
         /\ 10 * OccupancyAtPrice(p) = call.result.den
    /\ \E p \in OccupancyPrices :
         /\ p < call.args.price
         /\ 20 * OccupancyAtPrice(p) = 19 * call.result.den
    /\ \E d \in ValidDemand :
         /\ d > call.args.demand_confidence
         /\ OccupancyAtDemand(d) > call.result.num

LeadTimeLabels == {"Last Minute", "Short", "Medium", "Long", "Very Long"}

\* C23 as stated: for every integer lead_time >= 0, predict_demand and
\* load_and_preprocess_data assign the same booking_lead_time_category,
\* one of the five labels, with the boundaries 7, 30, 90 and 365, also at
\* lead_time = 0 and at each boundary.
C23_CategoriesAgree ==
    /\ (call.op = "load_and_preprocess_data" /\ call.args.found) =>
          \A i \in 1..Len(call.result.df) :
              LET row == call.result.df[i] IN
                  row.lead_time >= 0 =>
                      /\ row.booking_lead_time_category \in LeadTimeLabels
                      /\ row.booking_lead_time_category
                           = LeadTimeCategory(row.lead_time)
    /\ (call.op = "predict_demand" /\ call.outcome = "returned"
          /\ call.args.lead_time >= 0) =>
              /\ call.locals.booking_lead_time_category \in LeadTimeLabels
              /\ call.locals.booking_lead_time_category
                   = BookingLeadTimeCategory(call.args.lead_time)

=============================================================================
